---- MODULE Spec2Model ----
(***************************************************************************)
(* Exposure-aware lineup generator (src/index.js, lines 1-169; the rest of *)
(* that file and src/unnamed/part_000 are earlier variants without         *)
(* exposure records or partialIds).                                        *)
(*                                                                         *)
(* run() derives the liked distributions and the exposure records from the *)
(* pool (generateLineupPrep), then generateLineups loops: each attempt     *)
(* builds one candidate slot by slot (generateLineup / getEligiblePlayer)  *)
(* and accepts it when its key is new and its salary is inside the band.   *)
(*                                                                         *)
(* Numbers: salaries are the integers of the pool file; a liked weight is  *)
(* kept in thousandths (500 is 0.5), 0 standing for "no liked field".      *)
(* Every _.sample is a nondeterministic choice over the sampled list.      *)
(* A liked distribution is an array the code only measures (.length) and   *)
(* samples; it is kept as the bag of its entries, concat being bag sum.    *)
(***************************************************************************)
EXTENDS Integers, Sequences, FiniteSets, Bags, TLC

\* ---------------------------------------------------------------- bounds
\* largest requested lineup count (process.argv[2]) that Init draws
MaxOutputCount == 3
\* largest position sub-pool that InitDist draws
MaxDistPlayers == 3

\* ------------------------------------------------------ program constants
salaryCap == 60000
salaryFloor == 58800
failThreshold == 100
\* the length generatePosDist pads to, and the factor it scales weights by
distSize == 100
\* the entry generatePosDist pads with; JavaScript's null, which
\* getEligiblePlayer tests for truthiness (so 0 behaves the same)
noLiked == 0

VARIABLES
  pool,                  \* playerPool: sequence of player records
  positions,             \* roster template: sequence of position codes
  outputCount,           \* requested number of lineups
  prep,                  \* position code -> liked distribution (a bag)
  exposures,             \* prep.exposures: liked id -> [count, max]
  lineups,               \* accepted lineups, in acceptance order
  lineupKeys,            \* key -> accepted lineup
  consecutiveAttemptNum, \* the consecutive-failure counter
  partialLineup,         \* generateLineup's lineup in progress
  partialIds,            \* generateLineup's property names of used players
  candidate,             \* result of the last generateLineup call, or null
  selectedLikedId,       \* getEligiblePlayer's last draw from prep[position]
  pc                     \* "prep" | "loop" | "build" | "eval" | "done"

vars == <<pool, positions, outputCount, prep, exposures, lineups, lineupKeys,
          consecutiveAttemptNum, partialLineup, partialIds, candidate,
          selectedLikedId, pc>>

\* JavaScript's null, as returned by getEligiblePlayer and generateLineup
null == [isNull |-> TRUE]

\* a lineup held by a variable that may also hold null
Some(lineup) == [isNull |-> FALSE, lineup |-> lineup]

\* getEligiblePlayer's selectedLikedId before _.sample has run
undefined == [isUndefined |-> TRUE]

\* selectedLikedId once drawn: a liked id, or noLiked
Drawn(id) == [isUndefined |-> FALSE, id |-> id]

Player(id, salary, pos, liked) ==
  [id |-> id, salary |-> salary, pos |-> pos, liked |-> liked]

Range(s) == {s[i] : i \in DOMAIN s}

\* ------------------------------------------------------------ arithmetic
CeilDiv(a, b) == (a + b - 1) \div b

\* The weights (thousandths) whose IEEE double product with 100 lies above
\* the whole number it stands for: 0.07 * 100 = 7.000000000000001, and so
\* on for 0.14, 0.28, 0.55, 0.56.  No weight of up to three decimals times
\* a count of 1..6 rounds across a whole number.
RoundsAbove100 == {70, 140, 280, 550, 560}

\* Math.ceil(liked * k) for a weight in thousandths, as doubles compute it
MathCeilTimes(liked, k) ==
  CeilDiv(liked * k, 1000)
    + (IF k = 100 /\ liked \in RoundsAbove100 THEN 1 ELSE 0)

\* ------------------------------------------------------- pure functions
RECURSIVE getSalary(_)
getSalary(lineup) ==
  IF lineup = <<>> THEN 0
  ELSE Head(lineup).salary + getSalary(Tail(lineup))

\* variant: the ids sorted before they are joined
RECURSIVE getLineupKeySorted(_)
getLineupKeySorted(lineup) ==
  IF lineup = <<>> THEN ""
  ELSE LET i == CHOOSE m \in DOMAIN lineup :
                  \A j \in DOMAIN lineup : lineup[m].id <= lineup[j].id
           rest == SubSeq(lineup, 1, i - 1) \o SubSeq(lineup, i + 1, Len(lineup))
       IN IF rest = <<>> THEN ToString(lineup[i].id)
          ELSE ToString(lineup[i].id) \o "-" \o getLineupKeySorted(rest)

RECURSIVE getLineupKey(_)
getLineupKey(lineup) ==
  IF lineup = <<>> THEN ""
  ELSE IF Len(lineup) = 1 THEN ToString(Head(lineup).id)
  ELSE ToString(Head(lineup).id) \o "-" \o getLineupKey(Tail(lineup))

\* variant: a salary equal to the remaining salary passes
getPositionCandidatesSalaryInclusive(playerPool, position, remainingSalary) ==
  SelectSeq(playerPool,
            LAMBDA player : position \in player.pos
                            /\ player.salary <= remainingSalary)

\* variant: the position test dropped from the filter
getPositionCandidatesAnyPosition(playerPool, position, remainingSalary) ==
  SelectSeq(playerPool, LAMBDA player : player.salary < remainingSalary)

getPositionCandidates(playerPool, position, remainingSalary) ==
  SelectSeq(playerPool,
            LAMBDA player : position \in player.pos
                            /\ player.salary < remainingSalary)

\* The property name JavaScript derives from a player object used as a key
\* (partialIds[player]): String(player), the same for every object.
ObjectKey(player) == "[object Object]"

\* The property name of partialIds[selection.id]
IdKey(id) == ToString(id)

\* _.sample(list): any element of a non-empty list
sample(list) == Range(list)

\* _.sample of an array kept as the bag of its entries
sampleDist(dist) == BagToSet(dist)

\* what one call of getEligiblePlayer leaves: its draw and its return value
Outcome(drawn, selection) == [selectedLikedId |-> drawn, selection |-> selection]

\* variant: the sentinel falls back to any candidate, liked or not
getEligiblePlayerAnyFallback(playerPool, prp, position, remainingSalary, pIds) ==
  LET candidates ==
        SelectSeq(getPositionCandidates(playerPool, position, remainingSalary),
                  LAMBDA player : ObjectKey(player) \notin pIds)
      selectedLikedArr(likedId) ==
        SelectSeq(candidates, LAMBDA player : player.id = likedId)
  IN IF Len(candidates) = 0 THEN {Outcome(undefined, null)}
     ELSE UNION {
            IF likedId # noLiked
            THEN IF selectedLikedArr(likedId) = <<>>
                 THEN {Outcome(Drawn(likedId), null)}
                 ELSE {Outcome(Drawn(likedId),
                               selectedLikedArr(likedId)[1])}
            ELSE {Outcome(Drawn(likedId), player) :
                    player \in sample(candidates)}
            : likedId \in sampleDist(prp[position]) }

\* The outcomes of getEligiblePlayer: the value drawn from prep[position]
\* (undefined when it returns before drawing) and the value returned, a
\* player or null
getEligiblePlayer(playerPool, prp, position, remainingSalary, pIds) ==
  LET candidates ==
        SelectSeq(getPositionCandidates(playerPool, position, remainingSalary),
                  LAMBDA player : ObjectKey(player) \notin pIds)
      nonLikedCandidates ==
        SelectSeq(candidates, LAMBDA player : player.liked = 0)
      selectedLikedArr(likedId) ==
        SelectSeq(candidates, LAMBDA player : player.id = likedId)
  IN IF Len(candidates) = 0 THEN {Outcome(undefined, null)}
     ELSE UNION {
            IF likedId # noLiked
            THEN IF selectedLikedArr(likedId) = <<>>
                 THEN {Outcome(Drawn(likedId), null)}
                 ELSE {Outcome(Drawn(likedId),
                               selectedLikedArr(likedId)[1])}
            \* _.sample of an empty list is undefined, falsy like null
            ELSE IF nonLikedCandidates = <<>>
                 THEN {Outcome(Drawn(likedId), null)}
                 ELSE {Outcome(Drawn(likedId), player) :
                         player \in sample(nonLikedCandidates)}
            : likedId \in sampleDist(prp[position]) }

getInitialExposures(count, playerPool) ==
  [id \in {playerPool[i].id : i \in {j \in DOMAIN playerPool :
                                        playerPool[j].liked # 0}} |->
     [count |-> 0,
      max |-> MathCeilTimes(
                (CHOOSE p \in Range(playerPool) : p.id = id /\ p.liked # 0).liked,
                count)]]

\* variant: the floor test dropped
isValidLineupNoFloor(lineup, floor, cap) == getSalary(lineup) < cap

\* variant: a salary equal to the floor passes
isValidLineupFloorInclusive(lineup, floor, cap) ==
  getSalary(lineup) >= floor /\ getSalary(lineup) < cap

isValidLineup(lineup, floor, cap) ==
  getSalary(lineup) > floor /\ getSalary(lineup) < cap

\* _.range(n).map(() => entry): n copies of entry
Copies(n, entry) == IF n > 0 THEN entry :> n ELSE EmptyBag

RECURSIVE likedDistOf(_)
likedDistOf(liked) ==
  IF liked = <<>> THEN EmptyBag
  ELSE Copies(MathCeilTimes(Head(liked).liked, distSize), Head(liked).id)
         (+) likedDistOf(Tail(liked))

\* variant: the padding measured from the number of liked players
generatePosDistPadByPlayers(posSubPool) ==
  LET liked == SelectSeq(posSubPool, LAMBDA player : player.liked # 0)
      likedDist == likedDistOf(liked)
      diff == distSize - Len(liked)
  IN IF diff > 0 THEN likedDist (+) Copies(diff, noLiked)
     ELSE likedDist

generatePosDist(posSubPool) ==
  LET liked == SelectSeq(posSubPool, LAMBDA player : player.liked # 0)
      likedDist == likedDistOf(liked)
      diff == distSize - BagCardinality(likedDist)
  IN IF diff > 0 THEN likedDist (+) Copies(diff, noLiked)
     ELSE likedDist

posSubPoolOf(playerPool, position) ==
  SelectSeq(playerPool, LAMBDA player : position \in player.pos)

\* variant: the loop runs once more at the requested count
LoopConditionInclusive(len, count, attemptNum) ==
  len <= count /\ attemptNum < failThreshold

\* while (lineups.length < outputCount && consecutiveAttemptNum < failThreshold)
LoopCondition(len, count, attemptNum) ==
  len < count /\ attemptNum < failThreshold

\* variant: the key test dropped
AcceptConditionNoKeyTest(keys, lineupKey, isValid) == isValid

\* if (!lineupKeys[lineupKey] && isValid)
AcceptCondition(keys, lineupKey, isValid) ==
  lineupKey \notin DOMAIN keys /\ isValid

\* the counter after an attempt that produced a candidate
NextAttemptNum(accepted, attemptNum) ==
  (IF accepted THEN 0 ELSE attemptNum) + 1

\* variant: the count raised once for every slot the player fills
updatedExposuresPerSlot(exp, lineup) ==
  [id \in {lineup[i].id : i \in {j \in DOMAIN lineup : lineup[j].liked # 0}} |->
     [count |-> exp[id].count
                  + Cardinality({j \in DOMAIN lineup : lineup[j].id = id}),
      max |-> exp[id].max]]

\* candidate.filter(player => player.liked).reduce(updateExposure, {})
updatedExposures(exp, lineup) ==
  [id \in {lineup[i].id : i \in {j \in DOMAIN lineup : lineup[j].liked # 0}} |->
     [count |-> exp[id].count + 1, max |-> exp[id].max]]

\* ---------------------------------------------------------------- inputs
Catalogue ==
  << Player(1, 29500, {"PG"}, 500),
     Player(2, 29450, {"SG"}, 0),
     Player(3, 29350, {"PG", "SG"}, 0),
     Player(12, 30500, {"SG"}, 333) >>

RECURSIVE Pick(_, _)
Pick(i, S) ==
  IF i > Len(Catalogue) THEN <<>>
  ELSE (IF i \in S THEN <<Catalogue[i]>> ELSE <<>>) \o Pick(i + 1, S)

Pools == {Pick(1, S) : S \in SUBSET (1..Len(Catalogue))}

Templates == {<<"PG", "SG">>, <<"PG", "PG">>}

DistWeights == {0, 70, 250, 333, 495, 505, 1000}

DistPlayers(n) ==
  {Player(n, 29500, pos, w) : pos \in {{"PG"}, {"PG", "SG"}}, w \in DistWeights}

DistPools ==
  UNION {{p \in [1..n -> UNION {DistPlayers(k) : k \in 1..n}] :
            \A k \in 1..n : p[k].id = k} : n \in 0..MaxDistPlayers}

\* ----------------------------------------------------------------- state
Start ==
  /\ prep = <<>>
  /\ exposures = <<>>
  /\ lineups = <<>>
  /\ lineupKeys = <<>>
  /\ consecutiveAttemptNum = 0
  /\ partialLineup = <<>>
  /\ partialIds = {}
  /\ candidate = null
  /\ selectedLikedId = undefined
  /\ pc = "prep"

Init ==
  /\ pool \in Pools
  /\ positions \in Templates
  /\ outputCount \in 1..MaxOutputCount
  /\ Start

InitDist ==
  /\ pool \in DistPools
  /\ positions = <<"PG", "SG">>
  /\ outputCount = 1
  /\ Start

\* run(): prep = generateLineupPrep(outputCount, pool, positions)
generateLineupPrep ==
  /\ pc = "prep"
  /\ prep' = [position \in Range(positions) |->
                generatePosDist(posSubPoolOf(pool, position))]
  /\ exposures' = getInitialExposures(outputCount, pool)
  /\ pc' = "loop"
  /\ UNCHANGED <<pool, positions, outputCount, lineups, lineupKeys,
                 consecutiveAttemptNum, partialLineup, partialIds, candidate,
                 selectedLikedId>>

\* generateLineups: the while test, and the entry of generateLineup
LoopTest ==
  /\ pc = "loop"
  /\ IF LoopCondition(Len(lineups), outputCount, consecutiveAttemptNum)
     THEN pc' = "build"
     ELSE pc' = "done"
  /\ partialLineup' = <<>>
  /\ partialIds' = {}
  /\ candidate' = null
  /\ selectedLikedId' = undefined
  /\ UNCHANGED <<pool, positions, outputCount, prep, exposures, lineups,
                 lineupKeys, consecutiveAttemptNum>>

\* generateLineup: one pass of the for loop that fills its slot; filling
\* the last slot returns the lineup to generateLineups
FillSlot ==
  /\ pc = "build"
  /\ LET posId == Len(partialLineup)
         remainingSalary == salaryCap - getSalary(partialLineup)
     IN \E outcome \in getEligiblePlayer(pool, prep, positions[posId + 1],
                                         remainingSalary, partialIds) :
          /\ outcome.selection # null
          /\ selectedLikedId' = outcome.selectedLikedId
          /\ partialLineup' = Append(partialLineup, outcome.selection)
          /\ partialIds' = partialIds \cup {IdKey(outcome.selection.id)}
          /\ IF posId + 1 = Len(positions)
             THEN candidate' = Some(partialLineup') /\ pc' = "eval"
             ELSE candidate' = candidate /\ pc' = "build"
  /\ UNCHANGED <<pool, positions, outputCount, prep, exposures, lineups,
                 lineupKeys, consecutiveAttemptNum>>

\* generateLineup: getEligiblePlayer gives no selection, generateLineup
\* returns null, and generateLineups skips its if (candidate) block
SlotFail ==
  /\ pc = "build"
  /\ LET posId == Len(partialLineup)
         remainingSalary == salaryCap - getSalary(partialLineup)
     IN \E outcome \in getEligiblePlayer(pool, prep, positions[posId + 1],
                                         remainingSalary, partialIds) :
          /\ outcome.selection = null
          /\ selectedLikedId' = outcome.selectedLikedId
  /\ candidate' = null
  /\ partialLineup' = <<>>
  /\ partialIds' = {}
  /\ pc' = "loop"
  /\ UNCHANGED <<pool, positions, outputCount, prep, exposures, lineups,
                 lineupKeys, consecutiveAttemptNum>>

\* generateLineups: the if (candidate) block
Evaluate ==
  /\ pc = "eval"
  /\ LET lineup == candidate.lineup
         lineupKey == getLineupKey(lineup)
         isValid == isValidLineup(lineup, salaryFloor, salaryCap)
         accepted == AcceptCondition(lineupKeys, lineupKey, isValid)
     IN /\ lineupKeys' = IF accepted
                         THEN (lineupKey :> lineup) @@ lineupKeys
                         ELSE lineupKeys
        /\ exposures' = IF accepted
                        THEN updatedExposures(exposures, lineup) @@ exposures
                        ELSE exposures
        /\ lineups' = IF accepted THEN Append(lineups, lineup) ELSE lineups
        /\ consecutiveAttemptNum' = NextAttemptNum(accepted, consecutiveAttemptNum)
  /\ partialLineup' = <<>>
  /\ partialIds' = {}
  /\ pc' = "loop"
  /\ UNCHANGED <<pool, positions, outputCount, prep, candidate,
                 selectedLikedId>>

Next ==
  \/ generateLineupPrep
  \/ LoopTest
  \/ FillSlot
  \/ SlotFail
  \/ Evaluate

Spec == Init /\ [][Next]_vars

\* the loop runs on: no step that can be taken is postponed forever
FairSpec == Init /\ [][Next]_vars /\ WF_vars(Next)

\* the distribution builder alone, over a wider family of sub-pools
DistSpec == InitDist /\ [][generateLineupPrep]_vars

\* ----------------------------------------------------------- properties
ContainsId(lineup, id) == \E i \in DOMAIN lineup : lineup[i].id = id

AcceptedWith(id) == {k \in DOMAIN lineups : ContainsId(lineups[k], id)}

LikedPlayers == {p \in Range(pool) : p.liked # 0}

NoRepeatedPlayer(lineup) ==
  \A i, j \in DOMAIN lineup : i # j => lineup[i].id # lineup[j].id

\* C1: for every liked player, the number of accepted lineups containing
\* the player is at most ceil(liked weight * requested count), and the
\* exposure record's count is at most its max.
C1_ExposureWithinMax ==
  /\ \A p \in LikedPlayers :
       Cardinality(AcceptedWith(p.id)) <= CeilDiv(p.liked * outputCount, 1000)
  /\ \A id \in DOMAIN exposures : exposures[id].count <= exposures[id].max

\* no player of the pool is eligible for some slot of the template
NoPlayerForSomeSlot ==
  \E i \in DOMAIN positions : \A p \in Range(pool) : positions[i] \notin p.pos

\* C2: the generateLineups loop terminates; in particular it returns when
\* the pool admits no lineup at all.
C2_TerminatesWhenNothingBuilds == NoPlayerForSomeSlot => <>(pc = "done")

\* C3: no lineup returned by generateLineup, and no accepted lineup, holds
\* the same player id in two slots.
C3_NoPlayerTwice ==
  /\ candidate # null => NoRepeatedPlayer(candidate.lineup)
  /\ \A k \in DOMAIN lineups : NoRepeatedPlayer(lineups[k])

\* C4: every accepted lineup has a total salary strictly above salaryFloor
\* and strictly below salaryCap.
C4_SalaryInBand ==
  \A k \in DOMAIN lineups :
    salaryFloor < getSalary(lineups[k]) /\ getSalary(lineups[k]) < salaryCap

\* an attempt has just rejected a candidate whose salary equals the floor,
\* with a lineup already accepted
C4_Witness ==
  /\ pc = "loop"
  /\ lineups # <<>>
  /\ candidate # null
  /\ getSalary(candidate.lineup) = salaryFloor
  /\ \A k \in DOMAIN lineups : lineups[k] # candidate.lineup

\* C5: any two accepted lineups have different composition keys.
C5_DistinctKeys ==
  \A i, j \in DOMAIN lineups :
    i # j => getLineupKey(lineups[i]) # getLineupKey(lineups[j])

\* two lineups are accepted and an attempt has just rejected a copy of one
C5_Witness ==
  /\ pc = "loop"
  /\ Len(lineups) >= 2
  /\ candidate # null
  /\ consecutiveAttemptNum >= 2
  /\ \E k \in DOMAIN lineups : lineups[k] = candidate.lineup

\* C6: every accepted lineup has one player per slot of the template, each
\* eligible for its slot's position code, and generateLineup returns a
\* complete lineup or none.
C6_CompleteAndSlotCorrect ==
  /\ \A k \in DOMAIN lineups :
       /\ Len(lineups[k]) = Len(positions)
       /\ \A i \in DOMAIN positions : positions[i] \in lineups[k][i].pos
  /\ candidate # null => Len(candidate.lineup) = Len(positions)

\* a build has just failed after a lineup was accepted, and an accepted
\* lineup uses a player eligible for more than one position
C6_Witness ==
  /\ pc = "loop"
  /\ candidate = null
  /\ \E k \in DOMAIN lineups : \E i \in DOMAIN lineups[k] :
       Cardinality(lineups[k][i].pos) > 1

Occurrences(dist, v) == CopiesIn(v, dist)

LikedAt(position) == {p \in Range(pool) : position \in p.pos /\ p.liked # 0}

RECURSIVE SumLiked(_)
SumLiked(S) ==
  IF S = {} THEN 0
  ELSE LET x == CHOOSE y \in S : TRUE IN x.liked + SumLiked(S \ {x})

WeightSum(position) == SumLiked(LikedAt(position))

\* entries Math.ceil(liked * 100) yields in double arithmetic
LikedEntries(p) ==
  CeilDiv(p.liked, 10) + (IF p.liked \in {70, 140, 280, 550, 560} THEN 1 ELSE 0)

RECURSIVE SumEntries(_)
SumEntries(S) ==
  IF S = {} THEN 0
  ELSE LET x == CHOOSE y \in S : TRUE IN LikedEntries(x) + SumEntries(S \ {x})

\* C7 as stated: when the eligible liked weights of a position sum to at
\* most 1.0 its distribution has exactly 100 entries, ceil(weight * 100)
\* of them (as Math.ceil evaluates it) for each liked player and the
\* sentinel everywhere else.
C7_Hundred ==
  pc = "loop" =>
    \A position \in DOMAIN prep :
      WeightSum(position) <= 1000 =>
        /\ BagCardinality(prep[position]) = 100
        /\ \A p \in LikedAt(position) :
             Occurrences(prep[position], p.id) = LikedEntries(p)
        /\ \A entry \in BagToSet(prep[position]) :
             entry = noLiked \/ \E p \in LikedAt(position) : entry = p.id

\* C7 amended: each liked id appears Math.ceil(liked * 100) times as doubles
\* compute it, the sentinel fills what is left of 100, and the length is
\* 100 exactly when those counts total at most 100.
C7_DistContent ==
  pc = "loop" =>
    \A position \in DOMAIN prep :
      LET total == SumEntries(LikedAt(position))
      IN /\ \A p \in LikedAt(position) :
              Occurrences(prep[position], p.id) = LikedEntries(p)
         /\ Occurrences(prep[position], noLiked)
              = (IF total < 100 THEN 100 - total ELSE 0)
         /\ BagCardinality(prep[position])
              = total + Occurrences(prep[position], noLiked)
         /\ (total <= 100 <=> BagCardinality(prep[position]) = 100)

\* a position whose liked weights, one of them no whole hundredth, sum to
\* at most 1.0 and whose distribution has 100 entries, sentinels included
C7_Witness ==
  /\ pc = "loop"
  /\ \E position \in DOMAIN prep :
       /\ WeightSum(position) <= 1000
       /\ \E p \in LikedAt(position) : p.liked % 10 # 0
       /\ Cardinality(LikedAt(position)) >= 2
       /\ BagCardinality(prep[position]) = 100
       /\ Occurrences(prep[position], noLiked) > 0

\* C8: generateLineups returns at most the requested count, and fewer only
\* with the consecutive-failure counter at the threshold.
C8_ReturnCondition ==
  pc = "done" =>
    /\ Len(lineups) <= outputCount
    /\ Len(lineups) = outputCount \/ consecutiveAttemptNum >= failThreshold

\* a return through the threshold with some, but not all, lineups accepted
C8_Witness ==
  /\ pc = "done"
  /\ lineups # <<>>
  /\ Len(lineups) < outputCount
  /\ consecutiveAttemptNum = failThreshold

\* C9: every attempt that accepts nothing, a failed build included, adds
\* exactly 1 to the consecutive-failure counter.
C9_EveryFailureCounts ==
  [][(pc \in {"build", "eval"} /\ pc' = "loop" /\ lineups' = lineups)
       => consecutiveAttemptNum' = consecutiveAttemptNum + 1]_vars

\* C10: right after an attempt that accepts a lineup the
\* consecutive-failure counter is 0.
C10_ResetOnAccept ==
  [][Len(lineups') > Len(lineups) => consecutiveAttemptNum' = 0]_vars

\* C11: for every liked player the exposure record's count is the number
\* of accepted lineups containing the player (one per lineup, however many
\* slots the player fills) and its max is ceil(weight * requested count).
C11_CountMatchesAccepted ==
  pc # "prep" =>
    \A p \in LikedPlayers :
      /\ exposures[p.id].count = Cardinality(AcceptedWith(p.id))
      /\ exposures[p.id].max = CeilDiv(p.liked * outputCount, 1000)

\* two lineups are accepted, one holding a liked player in two slots, and
\* some liked player is in neither
C11_Witness ==
  /\ Len(lineups) >= 2
  /\ \E p \in LikedPlayers : \E k \in DOMAIN lineups :
       Cardinality({i \in DOMAIN lineups[k] : lineups[k][i].id = p.id}) > 1
  /\ \E q \in LikedPlayers : AcceptedWith(q.id) = {}

\* C12: generateLineup never places a liked player whose exposure record
\* already has count = max.
C12_NoSaturatedPlayerPlaced ==
  pc \in {"build", "eval"} =>
    \A i \in DOMAIN partialLineup :
      partialLineup[i].liked # 0 =>
        exposures[partialLineup[i].id].count < exposures[partialLineup[i].id].max

\* the slot generateLineup is filling, and what is left of the cap for it
CurrentPosition == positions[Len(partialLineup) + 1]

RemainingSalary == salaryCap - getSalary(partialLineup)

\* eligible by position and salary for the slot being filled
FitsSlot(p) == CurrentPosition \in p.pos /\ p.salary < RemainingSalary

\* C13: when the draw is a liked player's id and that player is not an
\* eligible candidate for the slot (wrong position, salary not strictly
\* below the remaining salary, or already used in the lineup), the slot
\* fails and generateLineup returns null.
C13_BlockedDrawFails ==
  [][(/\ pc = "build"
      /\ selectedLikedId' # undefined
      /\ selectedLikedId'.id # noLiked
      /\ ~\E p \in Range(pool) :
            /\ p.id = selectedLikedId'.id
            /\ FitsSlot(p)
            /\ ~ContainsId(partialLineup, p.id))
       => (pc' = "loop" /\ candidate' = null)]_vars

SameIds(a, b) ==
  Len(a) = Len(b) /\ \A i \in DOMAIN a : a[i].id = b[i].id

RECURSIVE TotalSalary(_)
TotalSalary(S) ==
  IF S = <<>> THEN 0 ELSE S[Len(S)].salary + TotalSalary(SubSeq(S, 1, Len(S) - 1))

InBand(lineup) ==
  salaryFloor < TotalSalary(lineup) /\ TotalSalary(lineup) < salaryCap

AlreadyAccepted(lineup) == \E k \in DOMAIN lineups : SameIds(lineups[k], lineup)

\* C15: an attempt that does not accept (failed build, duplicate key, or
\* salary outside the band) leaves the accepted list, the key set and every
\* exposure record unchanged.
C15_RejectionChangesNothing ==
  [][(/\ pc \in {"build", "eval"}
      /\ pc' = "loop"
      /\ \/ pc = "build"
         \/ AlreadyAccepted(candidate.lineup)
         \/ ~InBand(candidate.lineup))
       => /\ lineups' = lineups
          /\ lineupKeys' = lineupKeys
          /\ exposures' = exposures]_vars

\* a copy of an accepted lineup holding a liked player has just been
\* rejected, the player's count standing at 1
C15_Witness ==
  /\ pc = "loop"
  /\ candidate # null
  /\ consecutiveAttemptNum >= 2
  /\ Len(lineups) = 1
  /\ AlreadyAccepted(candidate.lineup)
  /\ \E i \in DOMAIN candidate.lineup :
       /\ candidate.lineup[i].liked # 0
       /\ exposures[candidate.lineup[i].id].count = 1

\* C16: a candidate inside the salary band is rejected exactly when an
\* accepted lineup has the same player id in every slot; the same players
\* in another slot order are no duplicate.
C16_OrderedKeyDedup ==
  [][(pc = "eval" /\ InBand(candidate.lineup))
       => (lineups' = lineups <=> AlreadyAccepted(candidate.lineup))]_vars

\* two accepted lineups hold the same players in different slot orders
C16_Witness ==
  \E j, k \in DOMAIN lineups :
    /\ ~SameIds(lineups[j], lineups[k])
    /\ {lineups[j][i].id : i \in DOMAIN lineups[j]}
         = {lineups[k][i].id : i \in DOMAIN lineups[k]}

\* C17: the partial lineup's salary is below salaryCap at every step of
\* generateLineup, so is every lineup it returns, and a candidate fails
\* isValidLineup only by a salary at or below salaryFloor.
C17_BelowCapThroughout ==
  /\ TotalSalary(partialLineup) < salaryCap
  /\ candidate # null =>
       /\ TotalSalary(candidate.lineup) < salaryCap
       /\ ~isValidLineup(candidate.lineup, salaryFloor, salaryCap)
            => TotalSalary(candidate.lineup) <= salaryFloor

\* a slot is being filled for which some player's salary is exactly the
\* remaining salary
C17_Witness ==
  /\ pc = "build"
  /\ partialLineup # <<>>
  /\ \E p \in Range(pool) :
       CurrentPosition \in p.pos /\ p.salary = RemainingSalary

====
